---- MODULE Spec2Model ----
(***************************************************************************)
(* Model of roles.ts: the Discord -> Supabase role mirror.                 *)
(*                                                                         *)
(* Strings (guild ids, member ids, cache keys) are sequences of one-       *)
(* character strings, so that cacheKey, startsWith and split are computed   *)
(* the way the code computes them.  A role list is a sequence of role ids.  *)
(* A missing member id (member.user?.id undefined) is the empty string.     *)
(***************************************************************************)
EXTENDS Integers, Sequences, FiniteSets, TLC

VARIABLES
    rolesCache,     \* Map<"guild:user", roles[]>            (roles.ts:41)
    sink,           \* the user_roles table: <<guild, id>> -> row
    calls,          \* sink requests awaited by upsertUserRoles / removeUserRoles
    nextId,         \* number of sink requests issued so far
    pc,             \* position of the main program / the Ready handler
    gi,             \* index into guildIds of the guild initialSync is at
    phase,          \* per guild: Pending, Fetching, Syncing, Pruning, Done, Failed
    script,         \* per guild: the pages the member endpoint will serve, in order
    fetchCalls,     \* fetchGuildMembersPage calls made for the current guild
    cursors,        \* the `after` argument of each of those calls
    page,           \* initialSync's `page`
    guildMembers,   \* initialSync's `guildMembers`
    mi,             \* how many members the .map() of line 130 has gone through
    syncResults,    \* statuses of the settled syncUserRoles promises of line 129
    failures,       \* initialSync's `failures.length`
    discordUserIds, \* initialSync's `discordUserIds`
    cachedKeys,     \* keys of initialSync's `cachedKeys` not yet visited
    staleKeys,      \* ids removeUserRoles was called with in this guild's pruning
    passStart,      \* the cache and the sink when the current guild's pass began
    snapshot,       \* the cache when line 142 read its keys
    live,           \* gateway member events handled so far
    lastRet,        \* the syncUserRoles / removeUserRoles call that returned last
    sinkErrors      \* sink requests answered with an error so far

vars == <<rolesCache, sink, calls, nextId, pc, gi, phase, script, fetchCalls,
          cursors, page, guildMembers, mi, syncResults, failures,
          discordUserIds, cachedKeys, staleKeys, passStart, snapshot, live,
          lastRet,
          sinkErrors>>

passVars == <<gi, phase, fetchCalls, cursors, page, guildMembers, mi,
              syncResults, failures, discordUserIds, cachedKeys, staleKeys,
              passStart, snapshot>>

-----------------------------------------------------------------------------
(* Bounds of the model *)

MaxRoles == 2       \* longest role list drawn as an input
MaxPages == 3       \* longest page script drawn for the Pager
MaxLive == 1        \* gateway member events handled in one run
MaxSeqCalls == 3    \* calls made by the sequential harness
MaxRows == 2        \* rows in the table at startup
MaxFetches == 4     \* fetches of one guild against a cursor-honouring endpoint

(* roles.ts:14 sets PAGE_LIMIT = 1000; the model pages by 2. *)
PAGE_LIMIT == 2

-----------------------------------------------------------------------------
(* Identifiers *)

G1 == <<"1">>
G12 == <<"1", "2">>
G2 == <<"2">>
M5 == <<"5">>
M7 == <<"7">>
M8 == <<"8">>
NoId == <<>>

(* GUILD_SNOWFLAKES: the configured guilds.  G12 has G1 as a prefix. *)
guildIds == <<G1, G12>>

Configured == {guildIds[i] : i \in 1..Len(guildIds)}

Roles == {"a", "b"}

RECURSIVE SeqsUpTo(_, _)
SeqsUpTo(S, n) ==
    IF n = 0 THEN {<<>>}
    ELSE LET shorter == SeqsUpTo(S, n - 1)
         IN  shorter \cup {Append(s, x) : s \in shorter, x \in S}

RoleLists == SeqsUpTo(Roles, MaxRoles)

ToSet(s) == {s[i] : i \in 1..Len(s)}

-----------------------------------------------------------------------------
(* String operations of the code *)

Truthy(s) == s # <<>>

cacheKey(guildId, discordId) == guildId \o <<":">> \o discordId

startsWith(s, prefix) ==
    /\ Len(prefix) <= Len(s)
    /\ SubSeq(s, 1, Len(prefix)) = prefix

(* s.split(sep): the segments of s between the occurrences of sep *)
RECURSIVE split(_, _)
split(s, sep) ==
    IF \A i \in 1..Len(s) : s[i] # sep THEN <<s>>
    ELSE LET i == CHOOSE j \in 1..Len(s) :
                      s[j] = sep /\ \A k \in 1..(j - 1) : s[k] # sep
         IN  <<SubSeq(s, 1, i - 1)>> \o split(SubSeq(s, i + 1, Len(s)), sep)

(* key.split(':')[1] *)
keyDiscordId(key) == split(key, ":")[2]

-----------------------------------------------------------------------------
(* Map operations on rolesCache *)

MapSet(m, k, v) == [x \in DOMAIN m \cup {k} |-> IF x = k THEN v ELSE m[x]]

MapDelete(m, k) == [x \in DOMAIN m \ {k} |-> m[x]]

EmptyMap == [x \in {} |-> <<>>]

(* a table row: discord_role is nullable *)
Row(roles) == [null |-> FALSE, roles |-> roles]

NullRow == [null |-> TRUE, roles |-> <<>>]

(* row.discord_role ?? [] *)
rowRoles(row) == IF row.null THEN <<>> ELSE row.roles

(* fetchAllSupabaseRoles: the rows of the configured guilds, as a Map *)
loadedKeysAllGuilds(table) ==
    {k \in DOMAIN table : Truthy(k[1]) /\ Truthy(k[2])}

loadedKeys(table) ==
    {k \in DOMAIN table : k[1] \in Configured /\ Truthy(k[1]) /\ Truthy(k[2])}

fetchAllSupabaseRoles(table) ==
    [key \in {cacheKey(k[1], k[2]) : k \in loadedKeys(table)} |->
        LET k == CHOOSE r \in loadedKeys(table) : cacheKey(r[1], r[2]) = key
        IN  rowRoles(table[k])]

-----------------------------------------------------------------------------
(* The comparison of syncUserRoles (lines 187-197) *)

symmetricDifference(A, B) == (A \ B) \cup (B \ A)

unchangedAsLists(cache, key, roles) ==
    /\ key \in DOMAIN cache
    /\ cache[key] = roles

unchangedFalsyEmpty(cache, key, roles) ==
    /\ key \in DOMAIN cache
    /\ cache[key] # <<>>
    /\ symmetricDifference(ToSet(cache[key]), ToSet(roles)) = {}

(* true when syncUserRoles returns at line 195 without calling the sink *)
unchanged(cache, key, roles) ==
    /\ key \in DOMAIN cache
    /\ symmetricDifference(ToSet(cache[key]), ToSet(roles)) = {}

-----------------------------------------------------------------------------
(* Calls of the Sink Adapter.  A call that reaches the sink is a record in  *)
(* `calls` from the moment its request is sent until the awaiting function  *)
(* resumes: st is "sent", then "ok" or "err" once the sink has answered.    *)

Call(id, op, g, m, roles, origin) ==
    [id |-> id, op |-> op, g |-> g, m |-> m, roles |-> roles,
     origin |-> origin, st |-> "sent"]

Ret(op, g, m, roles, issued, sinkErr, status) ==
    [op |-> op, g |-> g, m |-> m, roles |-> roles, issued |-> issued,
     sinkErr |-> sinkErr, status |-> status]

NoRet == Ret("none", <<>>, <<>>, <<>>, FALSE, FALSE, "none")

(* How the promise of syncUserRoles / removeUserRoles settles once the sink *)
(* has answered: lines 161-164 and 176-179 log the error and return.        *)
settleRejecting(st) == IF st = "err" THEN "rejected" ELSE "fulfilled"

settle(st) == "fulfilled"

(* lines 154-159: upsertUserRoles sends the upsert and awaits the answer *)
upsertUserRolesOptimistic(guildId, discordId, roles, origin) ==
    /\ calls' = calls \cup
           {Call(nextId + 1, "upsert", guildId, discordId, roles, origin)}
    /\ nextId' = nextId + 1
    /\ rolesCache' = MapSet(rolesCache, cacheKey(guildId, discordId), roles)
    /\ UNCHANGED lastRet

upsertUserRoles(guildId, discordId, roles, origin) ==
    /\ calls' = calls \cup
           {Call(nextId + 1, "upsert", guildId, discordId, roles, origin)}
    /\ nextId' = nextId + 1
    /\ UNCHANGED <<rolesCache, lastRet>>

(* lines 185-200, up to the first await *)
syncUserRoles(guildId, discordId, roles, origin) ==
    LET key == cacheKey(guildId, discordId)
    IN  IF unchanged(rolesCache, key, roles)
        THEN /\ lastRet' = Ret("sync", guildId, discordId, roles,
                               FALSE, FALSE, "fulfilled")
                      /\ UNCHANGED <<rolesCache, calls, nextId>>
        ELSE upsertUserRoles(guildId, discordId, roles, origin)

(* lines 170-174: removeUserRoles sends the delete and awaits the answer *)
removeUserRoles(guildId, discordId, origin) ==
    /\ calls' = calls \cup
           {Call(nextId + 1, "delete", guildId, discordId, <<>>, origin)}
    /\ nextId' = nextId + 1
    /\ UNCHANGED <<rolesCache, lastRet>>

(* the table serves one request: it applies it, or reports an error *)
applied(table, c) ==
    IF c.op = "upsert" THEN MapSet(table, <<c.g, c.m>>, Row(c.roles))
    ELSE MapDelete(table, <<c.g, c.m>>)

SinkAnswer(c) ==
    /\ c.st = "sent"
    /\ \/ /\ sink' = applied(sink, c)
          /\ calls' = (calls \ {c}) \cup {[c EXCEPT !.st = "ok"]}
          /\ UNCHANGED sinkErrors
       \/ /\ calls' = (calls \ {c}) \cup {[c EXCEPT !.st = "err"]}
          /\ sinkErrors' = sinkErrors + 1
          /\ UNCHANGED sink
    /\ UNCHANGED <<rolesCache, nextId, pc, script, live, lastRet>>
    /\ UNCHANGED passVars

(* lines 161-166: upsertUserRoles resumes, and with it syncUserRoles *)
upsertResumeCacheFirst(c) ==
    /\ rolesCache' = MapSet(rolesCache, cacheKey(c.g, c.m), c.roles)
    /\ calls' = calls \ {c}
    /\ lastRet' = Ret("sync", c.g, c.m, c.roles, TRUE, c.st = "err", settle(c.st))
    /\ UNCHANGED nextId

upsertResumeNoCache(c) ==
    /\ rolesCache' = rolesCache
    /\ calls' = calls \ {c}
    /\ lastRet' = Ret("sync", c.g, c.m, c.roles, TRUE, c.st = "err", settle(c.st))
    /\ UNCHANGED nextId

upsertResume(c) ==
    /\ rolesCache' = IF c.st = "err" THEN rolesCache
                     ELSE MapSet(rolesCache, cacheKey(c.g, c.m), c.roles)
    /\ calls' = calls \ {c}
    /\ lastRet' = Ret("sync", c.g, c.m, c.roles, TRUE, c.st = "err", settle(c.st))
    /\ UNCHANGED nextId

(* lines 176-182: removeUserRoles resumes *)
removeResumeNoDelete(c) ==
    /\ rolesCache' = rolesCache
    /\ calls' = calls \ {c}
    /\ lastRet' = Ret("remove", c.g, c.m, <<>>, TRUE, c.st = "err", settle(c.st))
    /\ UNCHANGED nextId

removeResumeAlways(c) ==
    /\ rolesCache' = MapDelete(rolesCache, cacheKey(c.g, c.m))
    /\ calls' = calls \ {c}
    /\ lastRet' = Ret("remove", c.g, c.m, <<>>, TRUE, c.st = "err", settle(c.st))
    /\ UNCHANGED nextId

removeResume(c) ==
    /\ rolesCache' = IF c.st = "err" THEN rolesCache
                     ELSE MapDelete(rolesCache, cacheKey(c.g, c.m))
    /\ calls' = calls \ {c}
    /\ lastRet' = Ret("remove", c.g, c.m, <<>>, TRUE, c.st = "err", settle(c.st))
    /\ UNCHANGED nextId

-----------------------------------------------------------------------------
(* The Ready handler: initialSync (lines 111-151) and Deno.exit (line 56).  *)
(* JavaScript runs a handler without interruption until it awaits a sink or *)
(* fetch answer: while pc is one of the Busy positions no other handler and *)
(* no continuation runs.                                                    *)

Busy == pc \in {"syncmap", "settled", "pruning", "nextguild"}

guildId == guildIds[gi]

It(id, roles) == [id |-> id, roles |-> roles]

(* the n-th page the member endpoint serves; it has nothing after its script *)
servedPage(scr, n) == IF n <= Len(scr) THEN scr[n] ELSE <<>>

lastId(members) == members[Len(members)].id

PassCalls == {c \in calls : c.origin = "pass"}

(* line 41: the cache is loaded before the gateway connects *)
Load ==
    /\ pc = "boot"
    /\ \/ /\ rolesCache' = fetchAllSupabaseRoles(sink)
          /\ pc' = "connected"
       \/ /\ pc' = "loadfailed"
          /\ UNCHANGED rolesCache
    /\ UNCHANGED <<sink, calls, nextId, script, live, lastRet, sinkErrors>>
    /\ UNCHANGED passVars

(* the first fetch of a guild's pass is sent (line 117) *)
beginGuild(i) ==
    /\ gi' = i
    /\ phase' = [phase EXCEPT ![i] = "Fetching"]
    /\ fetchCalls' = 1
    /\ cursors' = <<NoId>>
    /\ page' = <<>>
    /\ guildMembers' = <<>>
    /\ mi' = 0
    /\ syncResults' = <<>>
    /\ failures' = 0
    /\ discordUserIds' = {}
    /\ cachedKeys' = {}
    /\ staleKeys' = {}
    /\ passStart' = [cache |-> rolesCache, sink |-> sink, errors |-> sinkErrors,
                     live |-> live, calls |-> calls]
    /\ snapshot' = EmptyMap
    /\ pc' = "fetching"

(* lines 52-54: the Ready event starts initialSync *)
Ready ==
    /\ pc = "connected"
    /\ beginGuild(1)
    /\ UNCHANGED <<rolesCache, sink, calls, nextId, script, live, lastRet,
                   sinkErrors>>

(* lines 117-124: a page arrives; a full page sends the next fetch *)
FetchPageUntilEmpty ==
    /\ pc = "fetching"
    /\ LET got == servedPage(script[gi], fetchCalls)
           all == guildMembers \o got
       IN  /\ page' = got
           /\ guildMembers' = all
           /\ IF Len(got) > 0
              THEN /\ fetchCalls' = fetchCalls + 1
                   /\ cursors' = Append(cursors, lastId(all))
                   /\ UNCHANGED <<pc, phase>>
              ELSE /\ pc' = "syncmap"
                   /\ phase' = [phase EXCEPT ![gi] = "Syncing"]
                   /\ UNCHANGED <<fetchCalls, cursors>>
    /\ UNCHANGED <<rolesCache, sink, calls, nextId, script, live, lastRet,
                   sinkErrors>>
    /\ UNCHANGED <<gi, mi, syncResults, failures, discordUserIds, cachedKeys,
                   staleKeys, passStart, snapshot>>

(* lines 118-124 with `got` the page that arrived *)
pagerStep(got) ==
    LET all == guildMembers \o got
    IN  /\ page' = got
        /\ guildMembers' = all
        /\ IF Len(got) = PAGE_LIMIT
           THEN /\ fetchCalls' = fetchCalls + 1
                /\ cursors' = Append(cursors, lastId(all))
                /\ UNCHANGED <<pc, phase>>
           ELSE /\ pc' = "syncmap"
                /\ phase' = [phase EXCEPT ![gi] = "Syncing"]
                /\ UNCHANGED <<fetchCalls, cursors>>
        /\ UNCHANGED <<rolesCache, sink, calls, nextId, script, live, lastRet,
                       sinkErrors>>
        /\ UNCHANGED <<gi, mi, syncResults, failures, discordUserIds,
                       cachedKeys, staleKeys, passStart, snapshot>>

FetchPage ==
    /\ pc = "fetching"
    /\ pagerStep(servedPage(script[gi], fetchCalls))

(* the members a guild holds, in the order of the endpoint *)
RECURSIVE Concat(_, _)
Concat(scr, n) ==
    IF n = 0 THEN <<>> ELSE Concat(scr, n - 1) \o servedPage(scr, n)

guildHolds(scr) == Concat(scr, Len(scr))

Min(a, b) == IF a <= b THEN a ELSE b

(* lines 103-109 against an endpoint that honours `after`: at most          *)
(* PAGE_LIMIT members, those after the member with that id; line 105 leaves *)
(* out an `after` that is undefined, and the endpoint starts at the first   *)
fetchGuildMembersPage(members, after) ==
    LET start == IF Truthy(after) /\ \E i \in 1..Len(members) : members[i].id = after
                 THEN CHOOSE i \in 1..Len(members) : members[i].id = after
                 ELSE 0
    IN  SubSeq(members, start + 1, Min(start + PAGE_LIMIT, Len(members)))

(* lines 117-124, the endpoint honouring the cursor *)
FetchPageAfter ==
    /\ pc = "fetching"
    /\ fetchCalls <= MaxFetches
    /\ pagerStep(fetchGuildMembersPage(guildHolds(script[gi]),
                                       cursors[Len(cursors)]))

(* lines 117/122: the fetch rejects; nothing in initialSync catches it *)
FetchFail ==
    /\ pc = "fetching"
    /\ pc' = "aborted"
    /\ phase' = [phase EXCEPT ![gi] = "Failed"]
    /\ UNCHANGED <<rolesCache, sink, calls, nextId, script, live, lastRet,
                   sinkErrors>>
    /\ UNCHANGED <<gi, fetchCalls, cursors, page, guildMembers, mi, syncResults,
                   failures, discordUserIds, cachedKeys, staleKeys, passStart, snapshot>>

(* lines 130-132: the next member goes through .filter and .map *)
SyncNext ==
    /\ pc = "syncmap"
    /\ mi < Len(guildMembers)
    /\ mi' = mi + 1
    /\ LET member == guildMembers[mi + 1]
       IN  IF Truthy(member.id)
           THEN /\ syncUserRoles(guildId, member.id, member.roles, "pass")
                /\ syncResults' =
                       IF unchanged(rolesCache,
                                    cacheKey(guildId, member.id), member.roles)
                       THEN Append(syncResults, "fulfilled")
                       ELSE syncResults
           ELSE UNCHANGED <<rolesCache, calls, nextId, lastRet,
                            syncResults>>
    /\ UNCHANGED <<sink, pc, script, live, sinkErrors>>
    /\ UNCHANGED <<gi, phase, fetchCalls, cursors, page, guildMembers, failures,
                   discordUserIds, cachedKeys, staleKeys, passStart, snapshot>>

(* line 129: await Promise.allSettled(...) *)
AwaitNothing ==
    /\ pc = "syncmap"
    /\ mi = Len(guildMembers)
    /\ pc' = "settled"
    /\ UNCHANGED <<rolesCache, sink, calls, nextId, script, live, lastRet,
                   sinkErrors>>
    /\ UNCHANGED passVars

AwaitAllSettled ==
    /\ pc = "syncmap"
    /\ mi = Len(guildMembers)
    /\ pc' = IF PassCalls = {} THEN "settled" ELSE "syncing"
    /\ UNCHANGED <<rolesCache, sink, calls, nextId, script, live, lastRet,
                   sinkErrors>>
    /\ UNCHANGED passVars

Count(seq, x) == Cardinality({i \in 1..Len(seq) : seq[i] = x})

cachedKeysOfAnyGuild(cache, g) == DOMAIN cache

cachedKeysByPrefixOnly(cache, g) == {key \in DOMAIN cache : startsWith(key, g)}

(* line 142 *)
cachedKeysOf(cache, g) ==
    {key \in DOMAIN cache : startsWith(key, g \o <<":">>)}

(* the positions in a fetched list of the members that have an id *)
WithId(members) == {i \in 1..Len(members) : members[i].id # NoId}

(* line 141 *)
userIdsOf(members) ==
    {members[i].id : i \in {j \in 1..Len(members) : Truthy(members[j].id)}}

(* lines 135-142: every sync has settled; the pruning sets are computed *)
Settled ==
    /\ pc = "settled"
    /\ failures' = Count(syncResults, "rejected")
    /\ discordUserIds' = userIdsOf(guildMembers)
    /\ cachedKeys' = cachedKeysOf(rolesCache, guildId)
    /\ staleKeys' = {}
    /\ phase' = [phase EXCEPT ![gi] = "Pruning"]
    /\ pc' = "pruning"
    /\ UNCHANGED <<rolesCache, sink, calls, nextId, script, live, lastRet,
                   sinkErrors>>
    /\ UNCHANGED <<gi, fetchCalls, cursors, page, guildMembers, mi, syncResults,
                   passStart>>
    /\ snapshot' = rolesCache

isStaleAlways(key, ids) == TRUE

(* line 146 *)
isStale(key, ids) == keyDiscordId(key) \notin ids

(* lines 144-148: the loop visits a key; a stale one is removed *)
PruneKey(key) ==
    /\ pc = "pruning"
    /\ key \in cachedKeys
    /\ cachedKeys' = cachedKeys \ {key}
    /\ IF isStale(key, discordUserIds)
       THEN /\ removeUserRoles(guildId, keyDiscordId(key), "pass")
            /\ staleKeys' = staleKeys \cup {keyDiscordId(key)}
            /\ pc' = "removing"
       ELSE UNCHANGED <<rolesCache, calls, nextId, lastRet, staleKeys, pc>>
    /\ UNCHANGED <<sink, script, live, sinkErrors>>
    /\ UNCHANGED <<gi, phase, fetchCalls, cursors, page, guildMembers, mi,
                   syncResults, failures, discordUserIds, passStart, snapshot>>

(* line 149: the loop over cachedKeys ends *)
PruneDone ==
    /\ pc = "pruning"
    /\ cachedKeys = {}
    /\ phase' = [phase EXCEPT ![gi] = "Done"]
    /\ pc' = "nextguild"
    /\ UNCHANGED <<rolesCache, sink, calls, nextId, script, live, lastRet,
                   sinkErrors>>
    /\ UNCHANGED <<gi, fetchCalls, cursors, page, guildMembers, mi, syncResults,
                   failures, discordUserIds, cachedKeys, staleKeys, passStart, snapshot>>

(* line 112: the loop goes to the next configured guild *)
NextGuild ==
    /\ pc = "nextguild"
    /\ gi < Len(guildIds)
    /\ beginGuild(gi + 1)
    /\ UNCHANGED <<rolesCache, sink, calls, nextId, script, live, lastRet,
                   sinkErrors>>

(* lines 55-56: initialSync has returned; Deno.exit(0) *)
Exit ==
    /\ pc = "nextguild"
    /\ gi = Len(guildIds)
    /\ pc' = "exited"
    /\ UNCHANGED <<rolesCache, sink, calls, nextId, script, live, lastRet,
                   sinkErrors>>
    /\ UNCHANGED passVars

-----------------------------------------------------------------------------
(* Continuations: the awaited sink answer reaches the program.  A handler  *)
(* or continuation runs while the program awaits ("fetching", "syncing",   *)
(* "removing"), after the pass was aborted, and at "serving": the gateway   *)
(* handlers with no pass under way (README, Real-time Mode).                *)

Running == pc \in {"fetching", "syncing", "removing", "aborted", "serving"}

(* syncUserRoles resumes after its upsert (lines 161-166, 199-200) *)
UpsertReturnFailFast(c) ==
    /\ Running
    /\ c.op = "upsert"
    /\ c.st \in {"ok", "err"}
    /\ upsertResume(c)
    /\ IF c.origin = "pass"
       THEN /\ syncResults' = Append(syncResults, settleRejecting(c.st))
            /\ pc' = IF c.st = "err" THEN "aborted"
                     ELSE IF PassCalls \ {c} = {} THEN "settled" ELSE pc
       ELSE UNCHANGED <<syncResults, pc>>
    /\ UNCHANGED <<sink, script, live, sinkErrors>>
    /\ UNCHANGED <<gi, phase, fetchCalls, cursors, page, guildMembers, mi,
                   failures, discordUserIds, cachedKeys, staleKeys, passStart,
                   snapshot>>

UpsertReturn(c) ==
    /\ Running
    /\ c.op = "upsert"
    /\ c.st \in {"ok", "err"}
    /\ upsertResume(c)
    /\ IF c.origin = "pass"
       THEN /\ syncResults' = Append(syncResults, settle(c.st))
            /\ pc' = IF PassCalls \ {c} = {} THEN "settled" ELSE pc
       ELSE UNCHANGED <<syncResults, pc>>
    /\ UNCHANGED <<sink, script, live, sinkErrors>>
    /\ UNCHANGED <<gi, phase, fetchCalls, cursors, page, guildMembers, mi,
                   failures, discordUserIds, cachedKeys, staleKeys, passStart, snapshot>>

(* removeUserRoles resumes after its delete (lines 176-183) *)
DeleteReturn(c) ==
    /\ Running
    /\ c.op = "delete"
    /\ c.st \in {"ok", "err"}
    /\ removeResume(c)
    /\ pc' = IF c.origin = "pass" THEN "pruning" ELSE pc
    /\ UNCHANGED <<sink, script, live, sinkErrors>>
    /\ UNCHANGED passVars

-----------------------------------------------------------------------------
(* Gateway member events (lines 59-73) *)

GuildMemberUpdate(guild_id, user_id, roles) ==
    /\ Running
    /\ live' = live + 1
    /\ IF guild_id \in Configured
       THEN syncUserRoles(guild_id, user_id, roles, "live")
       ELSE UNCHANGED <<rolesCache, calls, nextId, lastRet>>
    /\ UNCHANGED <<sink, pc, script, sinkErrors>>
    /\ UNCHANGED passVars

GuildMemberRemove(guild_id, user_id) ==
    /\ Running
    /\ live' = live + 1
    /\ IF guild_id \in Configured
       THEN removeUserRoles(guild_id, user_id, "live")
       ELSE UNCHANGED <<rolesCache, calls, nextId, lastRet>>
    /\ UNCHANGED <<sink, pc, script, sinkErrors>>
    /\ UNCHANGED passVars

-----------------------------------------------------------------------------
(* Inputs *)

(* the tables holding at most n of the given rows, one row per key *)
RECURSIVE TablesUpTo(_, _)
TablesUpTo(rows, n) ==
    IF n = 0 THEN {EmptyMap}
    ELSE LET smaller == TablesUpTo(rows, n - 1)
         IN  smaller \cup {MapSet(t, r[1], r[2]) : t \in smaller, r \in rows}

(* rows the table may hold at startup: of both configured guilds, of a     *)
(* guild that is not configured, with a NULL role column, with no member id *)
StartRows ==
    {<< <<G1, M5>>, Row(<<"a">>) >>, << <<G1, M7>>, NullRow >>,
     << <<G12, M5>>, Row(<<"a">>) >>, << <<G2, M5>>, Row(<<"a">>) >>,
     << <<G1, NoId>>, Row(<<"a">>) >>}

EmptyGuild == << <<>> >>

OneMember == << <<It(M5, <<"a">>)>> >>

TwoPages == << <<It(M5, <<"b", "a">>), It(M7, <<"b">>)>>, <<It(NoId, <<"a">>)>> >>

NoIdLast == << <<It(M8, <<>>), It(NoId, <<"a">>)>>, <<It(M5, <<"a", "a">>)>> >>

(* what the member endpoint serves for the first and for the second guild *)
Scripts ==
    {<<s1, s2>> : s1 \in {EmptyGuild, OneMember, TwoPages, NoIdLast},
                  s2 \in {EmptyGuild, OneMember}}

EventGuilds == {G1, G2}

EventMembers == {M5}

EventRoleLists == {r \in RoleLists : Len(r) = 1}

InitPass ==
    /\ gi = 1
    /\ phase = [i \in 1..Len(guildIds) |-> "Pending"]
    /\ fetchCalls = 0
    /\ cursors = <<>>
    /\ page = <<>>
    /\ guildMembers = <<>>
    /\ mi = 0
    /\ syncResults = <<>>
    /\ failures = 0
    /\ discordUserIds = {}
    /\ cachedKeys = {}
    /\ staleKeys = {}
    /\ passStart = [cache |-> EmptyMap, sink |-> EmptyMap, errors |-> 0,
                    live |-> 0, calls |-> {}]
    /\ snapshot = EmptyMap

Init ==
    /\ sink \in TablesUpTo(StartRows, MaxRows)
    /\ script \in Scripts
    /\ rolesCache = EmptyMap
    /\ calls = {}
    /\ nextId = 0
    /\ pc = "boot"
    /\ live = 0
    /\ lastRet = NoRet
    /\ sinkErrors = 0
    /\ InitPass

Next ==
    \/ Load
    \/ Ready
    \/ FetchPage
    \/ FetchFail
    \/ SyncNext
    \/ AwaitAllSettled
    \/ Settled
    \/ \E key \in cachedKeys : PruneKey(key)
    \/ PruneDone
    \/ NextGuild
    \/ Exit
    \/ \E c \in calls : SinkAnswer(c)
    \/ \E c \in calls : UpsertReturn(c)
    \/ \E c \in calls : DeleteReturn(c)
    \/ /\ live < MaxLive
       /\ \E g \in EventGuilds, u \in EventMembers, roles \in EventRoleLists :
              GuildMemberUpdate(g, u, roles)
    \/ /\ live < MaxLive
       /\ \E g \in EventGuilds, u \in EventMembers : GuildMemberRemove(g, u)

Spec == Init /\ [][Next]_vars

-----------------------------------------------------------------------------
(* The Sink Adapter called from a sequential harness: the cache has been    *)
(* loaded, and every call starts after the one before it has returned.      *)

SeqGuilds == {G1}

SeqMembers == {M5}

SeqStartRows ==
    {<< <<G1, M5>>, Row(r) >> : r \in RoleLists}
    \cup {<< <<G1, M5>>, NullRow >>, << <<G12, M5>>, Row(<<"a">>) >>,
          << <<G2, M5>>, Row(<<"a">>) >>, << <<G1, NoId>>, Row(<<"a">>) >>}

InitSeq ==
    /\ sink \in TablesUpTo(SeqStartRows, MaxRows)
    /\ rolesCache = fetchAllSupabaseRoles(sink)
    /\ script = <<EmptyGuild, EmptyGuild>>
    /\ calls = {}
    /\ nextId = 0
    /\ pc = "serving"
    /\ live = 0
    /\ lastRet = NoRet
    /\ sinkErrors = 0
    /\ InitPass

NextSeq ==
    \/ /\ calls = {}
       /\ live < MaxSeqCalls
       /\ \E g \in SeqGuilds, u \in SeqMembers, roles \in RoleLists :
              GuildMemberUpdate(g, u, roles)
    \/ /\ calls = {}
       /\ live < MaxSeqCalls
       /\ \E g \in SeqGuilds, u \in SeqMembers : GuildMemberRemove(g, u)
    \/ \E c \in calls : SinkAnswer(c)
    \/ \E c \in calls : UpsertReturn(c)
    \/ \E c \in calls : DeleteReturn(c)

SpecSeq == InitSeq /\ [][NextSeq]_vars

-----------------------------------------------------------------------------
(* The Pager alone: the pagination loop of one guild against every script   *)
(* of at most MaxPages pages.                                               *)

PagerItems == {It(M5, <<>>), It(M7, <<"a">>), It(NoId, <<>>)}

PagerPages == SeqsUpTo(PagerItems, PAGE_LIMIT)

InitPager ==
    /\ sink = EmptyMap
    /\ rolesCache = EmptyMap
    /\ script \in {<<s, EmptyGuild>> : s \in SeqsUpTo(PagerPages, MaxPages)}
    /\ calls = {}
    /\ nextId = 0
    /\ pc = "fetching"
    /\ live = 0
    /\ lastRet = NoRet
    /\ sinkErrors = 0
    /\ gi = 1
    /\ phase = [i \in 1..Len(guildIds) |-> IF i = 1 THEN "Fetching" ELSE "Pending"]
    /\ fetchCalls = 1
    /\ cursors = <<NoId>>
    /\ page = <<>>
    /\ guildMembers = <<>>
    /\ mi = 0
    /\ syncResults = <<>>
    /\ failures = 0
    /\ discordUserIds = {}
    /\ cachedKeys = {}
    /\ staleKeys = {}
    /\ passStart = [cache |-> EmptyMap, sink |-> EmptyMap, errors |-> 0,
                    live |-> 0, calls |-> {}]
    /\ snapshot = EmptyMap

NextPager == FetchPage \/ FetchFail

SpecPager == InitPager /\ [][NextPager]_vars

-----------------------------------------------------------------------------
(* The Pager against an endpoint that honours the cursor: the guild holds   *)
(* at most MaxPages pages of members, each id once, some members without id *)

SourceItems == {It(M5, <<>>), It(M7, <<"a">>), It(M8, <<>>), It(NoId, <<>>)}

DistinctIds(members) ==
    \A i, j \in WithId(members) : members[i].id = members[j].id => i = j

Sources ==
    {s \in SeqsUpTo(SourceItems, MaxPages * PAGE_LIMIT) : DistinctIds(s)}

InitCursor ==
    /\ sink = EmptyMap
    /\ rolesCache = EmptyMap
    /\ script \in {<< <<s>>, EmptyGuild >> : s \in Sources}
    /\ calls = {}
    /\ nextId = 0
    /\ pc = "fetching"
    /\ live = 0
    /\ lastRet = NoRet
    /\ sinkErrors = 0
    /\ gi = 1
    /\ phase = [i \in 1..Len(guildIds) |-> IF i = 1 THEN "Fetching" ELSE "Pending"]
    /\ fetchCalls = 1
    /\ cursors = <<NoId>>
    /\ page = <<>>
    /\ guildMembers = <<>>
    /\ mi = 0
    /\ syncResults = <<>>
    /\ failures = 0
    /\ discordUserIds = {}
    /\ cachedKeys = {}
    /\ staleKeys = {}
    /\ passStart = [cache |-> EmptyMap, sink |-> EmptyMap, errors |-> 0,
                    live |-> 0, calls |-> {}]
    /\ snapshot = EmptyMap

NextCursor == FetchPageAfter \/ FetchFail

SpecCursor == InitCursor /\ [][NextCursor]_vars

(* the runs in which every enabled step is eventually taken *)
FairSpec == Spec /\ WF_vars(Next)

-----------------------------------------------------------------------------
(* Properties *)

MemberIds == {M5, M7, M8}

(* the step sends an upsert of (g, u, roles) to the sink *)
SendsUpsert(g, u, roles) ==
    \E c \in calls' \ calls :
        c.op = "upsert" /\ c.g = g /\ c.m = u /\ c.roles = roles

(* C1: a syncUserRoles call sends an upsert exactly when the cache has no   *)
(* entry for the key, or the cached and the observed roles differ as sets   *)
(* (SpecSeq: every cached list, empty ones included, against every list).   *)
C1_UpsertIffChanged ==
    [][\A g \in SeqGuilds, u \in SeqMembers, roles \in RoleLists :
          GuildMemberUpdate(g, u, roles) =>
              (SendsUpsert(g, u, roles) <=>
                  \/ cacheKey(g, u) \notin DOMAIN rolesCache
                  \/ ToSet(rolesCache[cacheKey(g, u)]) # ToSet(roles))]_vars

(* an upsert of the empty role list is in flight for a key with no entry *)
C1_Witness ==
    \E c \in calls :
        /\ c.op = "upsert"
        /\ c.roles = <<>>
        /\ cacheKey(c.g, c.m) \notin DOMAIN rolesCache

(* a call returns in this step of the sequential harness *)
ReturnsNow == calls' = {} /\ (calls # {} \/ live' = live + 1)

Wrote(r) == r.issued /\ ~r.sinkErr

SameSync(a, b) ==
    /\ a.op = "sync" /\ b.op = "sync"
    /\ a.g = b.g /\ a.m = b.m /\ a.roles = b.roles

(* C2: of two syncUserRoles calls with the same key and roles, the second   *)
(* starting after the first has returned, at most one writes to the sink;   *)
(* unless the first one's upsert failed, the second sends nothing.          *)
C2_Idempotent ==
    [][(ReturnsNow /\ SameSync(lastRet, lastRet')) =>
          /\ ~(Wrote(lastRet) /\ Wrote(lastRet'))
          /\ ~lastRet.sinkErr => ~lastRet'.issued]_vars

(* two calls were made, the first wrote <<"b", "a">>, the second was skipped *)
C2_Witness ==
    /\ live = 2 /\ nextId = 1 /\ sinkErrors = 0 /\ calls = {}
    /\ lastRet.op = "sync" /\ ~lastRet.issued
    /\ lastRet.roles = <<"b", "a">>
    /\ cacheKey(lastRet.g, lastRet.m) \in DOMAIN rolesCache
    /\ rolesCache[cacheKey(lastRet.g, lastRet.m)] = <<"b", "a">>
    /\ sink[<<lastRet.g, lastRet.m>>] = Row(<<"b", "a">>)

(* for every key of a configured guild: an entry iff a row, with equal role sets *)
CacheMatchesSink ==
    /\ DOMAIN rolesCache \subseteq
           {cacheKey(g, m) : g \in Configured, m \in MemberIds}
    /\ \A g \in Configured, m \in MemberIds :
           LET key == cacheKey(g, m)
           IN  /\ key \in DOMAIN rolesCache <=> <<g, m>> \in DOMAIN sink
               /\ key \in DOMAIN rolesCache =>
                      ToSet(rolesCache[key]) = ToSet(rowRoles(sink[<<g, m>>]))

(* C3: from a cache loaded from the table, after any sequence of successful *)
(* calls made one after another, the cache has an entry for a key (g, m)    *)
(* iff the table has the row, and the role sets are equal.                  *)
C3_WriteThrough == (calls = {} /\ sinkErrors = 0) => CacheMatchesSink

(* three successful calls, the last a removal; a row of a guild that is not *)
(* configured sits in the table throughout                                  *)
C3_Witness ==
    /\ calls = {} /\ sinkErrors = 0 /\ nextId = 3
    /\ lastRet.op = "remove"
    /\ <<G2, M5>> \in DOMAIN sink

(* C4: no step of a call whose sink request fails changes the cache: not    *)
(* the sending of a request, not the failing answer, not the resumption.    *)
C4_FailureLeavesCache ==
    [][(\/ \E c \in calls' \ calls : c.st = "sent"
        \/ sinkErrors' # sinkErrors
        \/ \E c \in calls : c.st = "err" /\ \A d \in calls' : d.id # c.id)
       => rolesCache' = rolesCache]_vars

(* a failed upsert for a key with no entry has returned: still no entry;    *)
(* and a failed delete has left its entry in place                          *)
C4_Witness ==
    /\ lastRet.op = "remove" /\ lastRet.sinkErr
    /\ cacheKey(lastRet.g, lastRet.m) \in DOMAIN rolesCache
    /\ sinkErrors = 1

(* C5: a call whose sink request failed settles as an error for its caller *)
C5_FailureSurfaced == lastRet.sinkErr => lastRet.status = "rejected"

(* C6: after a fetch failure in one guild, the guilds after it are still    *)
(* reconciled: the pass is not over while one of them is Pending.           *)
C6_FetchFailureIsolated ==
    \A i \in 1..Len(guildIds), j \in 1..Len(guildIds) :
        (phase[i] = "Failed" /\ i < j /\ phase[j] = "Pending") => pc # "aborted"


PassUpserts == {c \in PassCalls : c.op = "upsert"}

(* C7: whatever subset of a guild's upserts fails, every fetched member     *)
(* with an id gets its syncUserRoles call, the upsert is sent when its      *)
(* roles changed, a successful upsert updates its cache entry, no sync      *)
(* failure ends the pass, and the guild goes on to Pruning.                 *)
C7_PartialFailureIsolated ==
    /\ [](/\ (pc \in {"syncing", "settled"} \/ phase[gi] \in {"Pruning", "Done"}) =>
                Len(syncResults) + Cardinality(PassUpserts)
                    = Cardinality(WithId(guildMembers))
          /\ phase[gi] \in {"Pruning", "Done"} => PassUpserts = {}
          /\ pc = "aborted" => (phase[gi] = "Failed" /\ syncResults = <<>>))
    /\ [][/\ (SyncNext /\ guildMembers[mi + 1].id # NoId) =>
                LET m == guildMembers[mi + 1]
                IN  SendsUpsert(guildId, m.id, m.roles) <=>
                        \/ cacheKey(guildId, m.id) \notin DOMAIN rolesCache
                        \/ ToSet(rolesCache[cacheKey(guildId, m.id)])
                               # ToSet(m.roles)
          /\ \A c \in PassUpserts :
                (c.st = "ok" /\ c \notin calls') =>
                    /\ cacheKey(c.g, c.m) \in DOMAIN rolesCache'
                    /\ rolesCache'[cacheKey(c.g, c.m)] = c.roles]_vars
    /\ \A i \in 1..Len(guildIds) :
          (phase[i] = "Syncing") ~> (phase[i] = "Pruning")

(* Pruning has begun although an upsert of this pass failed: one fetched    *)
(* member's entry was written in this pass, another's is not what was       *)
(* fetched                                                                  *)
C7_Witness ==
    /\ pc = "pruning"
    /\ live = 0
    /\ sinkErrors > passStart.errors
    /\ \E i \in WithId(guildMembers), j \in WithId(guildMembers) :
          LET ki == cacheKey(guildId, guildMembers[i].id)
              kj == cacheKey(guildId, guildMembers[j].id)
          IN  /\ ki \in DOMAIN rolesCache
              /\ rolesCache[ki] = guildMembers[i].roles
              /\ ki \in DOMAIN passStart.cache => passStart.cache[ki] # rolesCache[ki]
              /\ kj \in DOMAIN rolesCache =>
                     ToSet(rolesCache[kj]) # ToSet(guildMembers[j].roles)

(* the members with an entry for guild g in the cache and not in the list *)
StaleMembers(cache, g, members) ==
    {m \in MemberIds :
        /\ cacheKey(g, m) \in DOMAIN cache
        /\ \A i \in 1..Len(members) : members[i].id # m}

(* C8: pruning calls removeUserRoles for exactly the members that had a     *)
(* cache entry for the guild when pruning began and are not in the fetched  *)
(* list; a pruning step changes no other entry of the cache.                *)
C8_PruningExact ==
    /\ [](/\ phase[gi] = "Pruning" =>
                staleKeys \subseteq StaleMembers(snapshot, guildId, guildMembers)
          /\ phase[gi] = "Done" =>
                staleKeys = StaleMembers(snapshot, guildId, guildMembers)
          /\ \A c \in PassCalls :
                c.op = "delete" => (c.g = guildId /\ c.m \in staleKeys))
    /\ [][/\ pc = "pruning" => rolesCache' = rolesCache
          /\ \A c \in PassCalls :
                (c.op = "delete" /\ c \notin calls') =>
                    \A key \in DOMAIN rolesCache :
                        key # cacheKey(guildId, c.m) =>
                            /\ key \in DOMAIN rolesCache'
                            /\ rolesCache'[key] = rolesCache[key]]_vars

(* the first guild is Done: of its cached members 5 and 7 only 5 was        *)
(* fetched, 7 was pruned and 5 still has its entry                          *)
C8_Witness ==
    /\ gi = 1 /\ phase[gi] = "Done"
    /\ M5 \in discordUserIds
    /\ staleKeys = {M7}
    /\ cacheKey(G1, M5) \in DOMAIN rolesCache
    /\ cacheKey(G1, M7) \notin DOMAIN rolesCache

(* the number of leading full pages of a script *)
FullPages(scr) ==
    CHOOSE k \in 0..Len(scr) :
        /\ \A i \in 1..k : Len(scr[i]) = PAGE_LIMIT
        /\ k < Len(scr) => Len(scr[k + 1]) # PAGE_LIMIT

(* C9: the Pager fetches until the first page shorter than PAGE_LIMIT: with *)
(* k full pages first it makes k + 1 calls, and it returns the pages        *)
(* concatenated in order.                                                   *)
C9_Pagination ==
    /\ pc = "fetching" => fetchCalls <= FullPages(script[gi]) + 1
    /\ pc = "syncmap" =>
          /\ fetchCalls = FullPages(script[gi]) + 1
          /\ guildMembers = Concat(script[gi], fetchCalls)

(* pages of sizes PAGE_LIMIT, PAGE_LIMIT, 1: three calls *)
C9_Witness ==
    /\ pc = "syncmap"
    /\ fetchCalls = 3
    /\ Len(guildMembers) = 2 * PAGE_LIMIT + 1

(* C10: a guild's pass that ends Done with no sink failure and no member    *)
(* event during it leaves the table's rows of the guild equal to the        *)
(* fetched members that have an id, with the fetched role sets, the cache   *)
(* equal to those rows, and the rows of other guilds as they were.          *)
C10_Reconciled ==
    (/\ phase[gi] = "Done"
     /\ sinkErrors = passStart.errors
     /\ live = passStart.live
     /\ passStart.calls = {})
    => LET g == guildId
           at == WithId(guildMembers)
       IN  /\ \A m \in MemberIds :
                <<g, m>> \in DOMAIN sink <=> \E i \in at : guildMembers[i].id = m
           /\ \A i \in at :
                ToSet(rowRoles(sink[<<g, guildMembers[i].id>>]))
                    = ToSet(guildMembers[i].roles)
           /\ \A m \in MemberIds :
                /\ cacheKey(g, m) \in DOMAIN rolesCache <=> <<g, m>> \in DOMAIN sink
                /\ <<g, m>> \in DOMAIN sink =>
                       rolesCache[cacheKey(g, m)] = rowRoles(sink[<<g, m>>])
           /\ \A k \in DOMAIN sink \cup DOMAIN passStart.sink :
                k[1] # g =>
                    /\ k \in DOMAIN sink /\ k \in DOMAIN passStart.sink
                    /\ sink[k] = passStart.sink[k]

(* the first guild is Done after a clean pass that wrote one member, left   *)
(* one as it was, skipped a member with no id and pruned another            *)
C10_Witness ==
    /\ gi = 1 /\ phase[gi] = "Done"
    /\ sinkErrors = 0 /\ live = 0
    /\ staleKeys # {}
    /\ \E i \in 1..Len(guildMembers) : guildMembers[i].id = NoId
    /\ \E i \in WithId(guildMembers) :
          sink[<<G1, guildMembers[i].id>>] # Row(guildMembers[i].roles)
    /\ \E i \in WithId(guildMembers) :
          <<G1, guildMembers[i].id>> \notin DOMAIN passStart.sink

(* the member ids of the rows of guild g that the load puts in the cache *)
LoadedIds(table, g) == {k[2] : k \in {r \in loadedKeys(table) : r[1] = g}}

(* C11: the cache loaded from the table has, for a configured guild g, no   *)
(* key that is stale against the member ids of the loaded rows of g; and a  *)
(* pass of g, with no member event, over a fetched list whose ids are       *)
(* exactly those calls removeUserRoles for no one.                          *)
C11_RoundTrip ==
    /\ pc = "connected" =>
          \A g \in Configured :
              \A key \in cachedKeysOf(rolesCache, g) :
                  ~isStale(key, LoadedIds(sink, g))
    /\ (/\ phase[gi] \in {"Pruning", "Done"}
        /\ live = 0
        /\ userIdsOf(guildMembers) = LoadedIds(passStart.sink, guildId))
       => /\ staleKeys = {}
          /\ \A c \in calls : c.op # "delete"

(* the first guild is Done: both of its loaded rows, one with a NULL role   *)
(* column, were fetched again, every key was visited and none removed       *)
C11_Witness ==
    /\ gi = 1 /\ phase[gi] = "Done"
    /\ live = 0
    /\ LoadedIds(passStart.sink, G1) = {M5, M7}
    /\ discordUserIds = {M5, M7}
    /\ cachedKeysOf(snapshot, G1) = {cacheKey(G1, M5), cacheKey(G1, M7)}
    /\ staleKeys = {}

(* C12: once every configured guild has ended its reconciliation, Done or  *)
(* Failed, the Ready handler is where initialSync has returned (line 55) or *)
(* the process has exited with status 0.  A handler left at "aborted" never *)
(* reaches Deno.exit(0): nothing runs in initialSync after the rejection.   *)
C12_BatchExit ==
    (\A i \in 1..Len(guildIds) : phase[i] \in {"Done", "Failed"})
        => pc \in {"nextguild", "exited"}

(* C13: the keys for pruning are read (lines 141-142), and every           *)
(* removeUserRoles of the pass is called, only when each syncUserRoles call *)
(* the pass started for the guild has settled: none of its upserts is in    *)
(* flight and there is one result for every fetched member with an id.      *)
C13_Barrier ==
    /\ [](/\ phase[gi] = "Pruning" =>
                /\ PassUpserts = {}
                /\ Len(syncResults) = Cardinality(WithId(guildMembers))
          /\ \A c \in PassCalls : c.op = "delete" => PassUpserts = {})
    /\ [][/\ Settled =>
                /\ PassUpserts = {}
                /\ Len(syncResults) = Cardinality(WithId(guildMembers))
          /\ (\E c \in calls' \ calls : c.op = "delete" /\ c.origin = "pass") =>
                /\ PassUpserts = {}
                /\ phase[gi] = "Pruning"]_vars

(* a removal of the pass is in flight after two syncs settled, one of them  *)
(* an upsert that failed                                                    *)
C13_Witness ==
    /\ pc = "removing"
    /\ live = 0
    /\ Len(syncResults) = 2
    /\ sinkErrors > passStart.errors
    /\ \E c \in PassCalls : c.op = "delete" /\ c.st = "sent"

(* C14: the cache changes only at the load and when a call resumes whose   *)
(* request the sink has answered with success, and then only in that call's *)
(* key: to the upserted list, or by removing the entry; a request counts as *)
(* answered with success only once the table has applied it.  So an entry   *)
(* always holds the loaded value or the list of a confirmed upsert, and an  *)
(* entry is gone only by a confirmed delete.                                *)
C14_SinkBeforeCache ==
    [][/\ rolesCache' # rolesCache =>
             \/ pc = "boot" /\ rolesCache' = fetchAllSupabaseRoles(sink)
             \/ \E c \in calls \ calls' :
                    /\ c.st = "ok"
                    /\ sink' = sink
                    /\ rolesCache' =
                          IF c.op = "upsert"
                          THEN MapSet(rolesCache, cacheKey(c.g, c.m), c.roles)
                          ELSE MapDelete(rolesCache, cacheKey(c.g, c.m))
       /\ \A c \in calls' \ calls :
             c.st = "ok" =>
                 /\ [c EXCEPT !.st = "sent"] \in calls
                 /\ sink' = applied(sink, [c EXCEPT !.st = "sent"])]_vars

(* a confirmed delete has removed a loaded entry after another request had  *)
(* failed, and an entry written by a confirmed upsert is in the cache       *)
C14_Witness ==
    /\ lastRet.op = "remove" /\ lastRet.issued /\ ~lastRet.sinkErr
    /\ cacheKey(lastRet.g, lastRet.m) \in DOMAIN passStart.cache
    /\ cacheKey(lastRet.g, lastRet.m) \notin DOMAIN rolesCache
    /\ sinkErrors > 0
    /\ \E key \in DOMAIN rolesCache :
          key \notin DOMAIN passStart.cache \/ passStart.cache[key] # rolesCache[key]

(* the guild of a cache key: key.split(':')[0] *)
keyGuild(key) == split(key, ":")[1]

(* C15: every key of the cache is of a configured guild; no request to the  *)
(* sink is for another guild; and a member event of a guild that is not     *)
(* configured sends nothing to the sink and leaves the cache as it is.      *)
C15_ConfiguredOnly ==
    /\ [](/\ \A key \in DOMAIN rolesCache : keyGuild(key) \in Configured
          /\ \A c \in calls : c.g \in Configured)
    /\ [][\A g \in EventGuilds \ Configured, u \in EventMembers :
             /\ (\E roles \in EventRoleLists : GuildMemberUpdate(g, u, roles))
                    => UNCHANGED <<rolesCache, calls, sink, nextId>>
             /\ GuildMemberRemove(g, u)
                    => UNCHANGED <<rolesCache, calls, sink, nextId>>]_vars

(* the table holds a row of guild 2, which is not configured; the cache was *)
(* loaded without it, and the one member event handled was of guild 2: no   *)
(* request was sent and no call returned                                    *)
C15_Witness ==
    /\ <<G2, M5>> \in DOMAIN sink
    /\ rolesCache # EmptyMap
    /\ pc = "aborted" /\ gi = 1
    /\ live = 1
    /\ nextId = 0
    /\ lastRet = NoRet

(* C16: a request is sent to the sink only in the step that handles an     *)
(* observation, never when a failed call resumes; and when the call that    *)
(* returned last was a syncUserRoles whose upsert failed, a syncUserRoles   *)
(* for the same key with the same roles sends the upsert again (calls made  *)
(* one after another).                                                      *)
C16_RetryOnNextObservation ==
    [][/\ nextId' # nextId => live' = live + 1
       /\ \A g \in SeqGuilds, u \in SeqMembers, roles \in RoleLists :
             (/\ GuildMemberUpdate(g, u, roles)
              /\ lastRet.op = "sync" /\ lastRet.sinkErr
              /\ lastRet.g = g /\ lastRet.m = u
              /\ ToSet(lastRet.roles) = ToSet(roles))
                 => SendsUpsert(g, u, roles)]_vars

(* the first call's upsert failed, for a key that has an entry; the second  *)
(* call, with the same roles, has its upsert in flight                      *)
C16_Witness ==
    /\ live = 2 /\ nextId = 2 /\ sinkErrors = 1
    /\ lastRet.op = "sync" /\ lastRet.sinkErr
    /\ cacheKey(lastRet.g, lastRet.m) \in DOMAIN rolesCache
    /\ \E c \in calls :
          /\ c.op = "upsert" /\ c.id = 2
          /\ c.g = lastRet.g /\ c.m = lastRet.m /\ c.roles = lastRet.roles

(* C17: when the Syncing phase of a guild ends, the number of failures     *)
(* initialSync has collected (lines 135-138) is the number of upserts of    *)
(* the phase that the sink answered with an error (no member event during   *)
(* the pass, so every sink error since its start is of one of its upserts). *)
C17_FailureCount ==
    [][(/\ Settled
        /\ live = passStart.live
        /\ passStart.calls = {})
       => failures' = sinkErrors - passStart.errors]_vars

(* C18: every fetch after the first has as cursor the id of the last item  *)
(* of the page before it; against an endpoint that serves, in order, the    *)
(* members after the cursor, the fetched list is always a prefix of the     *)
(* members the guild holds, the loop makes no more fetches than the guild   *)
(* has pages, and it ends with every member exactly once.                   *)
C18_PagerProgress ==
    LET src == guildHolds(script[gi])
    IN  /\ \A i \in 2..Len(cursors) :
              /\ (i - 1) * PAGE_LIMIT <= Len(guildMembers)
              /\ cursors[i] = guildMembers[(i - 1) * PAGE_LIMIT].id
        /\ Len(guildMembers) <= Len(src)
        /\ guildMembers = SubSeq(src, 1, Min(Len(guildMembers), Len(src)))
        /\ fetchCalls <= (Len(src) \div PAGE_LIMIT) + 1
        /\ pc = "syncmap" => guildMembers = src

(* no call on the key (g, m) is awaiting the sink or its own resumption *)
Quiet(g, m) == \A c \in calls : ~(c.g = g /\ c.m = m)

(* C19: once the cache is loaded, whenever no call on a key (g, m) is in    *)
(* flight, the cache has an entry for the key iff the table has the row,    *)
(* and their role sets are equal: also after calls on the key overlapped    *)
(* (a member event handled while the pass awaits the sink).                 *)
C19_AgreementUnderOverlap ==
    pc \notin {"boot", "loadfailed"} =>
        \A g \in Configured, m \in MemberIds :
            Quiet(g, m) =>
                LET key == cacheKey(g, m)
                IN  /\ key \in DOMAIN rolesCache <=> <<g, m>> \in DOMAIN sink
                    /\ key \in DOMAIN rolesCache =>
                           ToSet(rolesCache[key]) = ToSet(rowRoles(sink[<<g, m>>]))

(* the entry of key in the cache read for pruning is not the one the cache *)
(* had when the pass of the guild began                                     *)
WrittenInPass(key) ==
    /\ key \in DOMAIN snapshot
    /\ key \notin DOMAIN passStart.cache \/ snapshot[key] # passStart.cache[key]

(* C20: when a guild's pass has ended Done with no sink failure, after at   *)
(* most one member event during it, every member that was not fetched and   *)
(* whose cache entry was written during the pass (by the member-changed     *)
(* event, the only writer for such a member) still has its row.             *)
C20_LiveSurvivesPruning ==
    (/\ phase[gi] = "Done"
     /\ passStart.calls = {}
     /\ live <= passStart.live + 1
     /\ sinkErrors = passStart.errors)
    => \A m \in MemberIds \ discordUserIds :
           WrittenInPass(cacheKey(guildId, m)) => <<guildId, m>> \in DOMAIN sink

====
